---- MODULE Spec2Model ----
(***************************************************************************)
(* Model of prefect_azure/blob_storage.py: the three tasks                 *)
(* blob_storage_download, blob_storage_upload and blob_storage_list, and   *)
(* the aclosing context manager, run by a set of concurrently scheduled    *)
(* invocations against one blob service.                                   *)
(*                                                                         *)
(* Every await of the source is one step of the invocation that makes it,  *)
(* so other invocations may run between any two of them.  The service is   *)
(* a table container -> key -> content.  A client handle is a record that  *)
(* counts the release calls made on it and who made them.                  *)
(***************************************************************************)
EXTENDS Integers, Sequences, FiniteSets

\* ------------------------------------------------------------------ bounds

\* Invocations started in one behaviour of Spec (any interleaving).
MaxOps == 2
\* Invocations started in one behaviour of SeqSpec (one after another).
SeqMaxOps == 4
\* Keys uuid.uuid4() hands out in one behaviour.
MaxUuids == 1

Procs == {1, 2}
Containers == {"c1", "c2"}
UserKeys == {1}
Data == {"d1", "d2"}

\* ------------------------------------------------------------------ values

\* Python's None, as the blob argument's default (line 102).
None == 0
\* The n-th key uuid.uuid4() returns: distinct from every key a caller can
\* write down before it was generated, and from every earlier one.
Uuid(n) == Cardinality(UserKeys) + n
AllKeys == UserKeys \cup {Uuid(n) : n \in 1..MaxUuids}
NoBlob == "absent"
\* No client bound yet.
NoHandle == None

NoExc == [kind |-> "none", step |-> "none"]
\* Failures of the service that do not depend on the store.
FaultKinds == {"ServiceRequestError"}
Exc(k, s) == [kind |-> k, step |-> s]

NoCall == [op |-> "none", container |-> "c1", blob |-> None, data |-> "d1",
           overwrite |-> FALSE]
NoRet == [kind |-> "none", val |-> None]
NoClient == [container |-> "none", blob |-> None, closes |-> 0, closedBy |-> {}]

VARIABLES
    store,      \* the service: container -> key -> content or NoBlob
    uuids,      \* number of keys uuid.uuid4() has generated
    started,    \* number of invocations started
    clients,    \* handle id -> the client handle (one id per invocation slot)
    pc,         \* invocation -> its position in the task body
    call,       \* invocation -> the task's arguments
    blob,       \* invocation -> the local `blob` of blob_storage_upload
    client,     \* invocation -> the handle bound by `async with ... as`
    thing,      \* invocation -> self.thing of its aclosing instance
    blob_obj,   \* invocation -> the downloader download_blob() returned
    output,     \* invocation -> the local `output` of blob_storage_download
    blobs,      \* invocation -> the list built by blob_storage_list
    cursor,     \* invocation -> the pager list_blobs() returned: "none", then
                \* "active", then "exhausted" or "abandoned"; the tasks make
                \* no release call on it, so it is never "released"
    exc,        \* invocation -> the exception in flight at the block's exit
    raised,     \* invocation -> the exception its caller observes
    ret         \* invocation -> the value its caller receives

vars == <<store, uuids, started, clients, pc, call, blob, client, thing,
          blob_obj, output, blobs, cursor, exc, raised, ret>>

locals == <<blob, client, thing, blob_obj, output, blobs, cursor, exc, raised, ret>>

NoCursor == [state |-> "none", marker |-> 0]

Init ==
    /\ store = [c \in Containers |-> [k \in AllKeys |-> NoBlob]]
    /\ uuids = 0
    /\ started = 0
    /\ clients = [h \in Procs |-> NoClient]
    /\ pc = [p \in Procs |-> "idle"]
    /\ call = [p \in Procs |-> NoCall]
    /\ blob = [p \in Procs |-> None]
    /\ client = [p \in Procs |-> NoHandle]
    /\ thing = [p \in Procs |-> NoHandle]
    /\ blob_obj = [p \in Procs |-> NoBlob]
    /\ output = [p \in Procs |-> NoBlob]
    /\ blobs = [p \in Procs |-> <<>>]
    /\ cursor = [p \in Procs |-> NoCursor]
    /\ exc = [p \in Procs |-> NoExc]
    /\ raised = [p \in Procs |-> NoExc]
    /\ ret = [p \in Procs |-> NoRet]

\* ------------------------------------------------- the service and its clients

\* Keys a caller can name: its own, and the name of any object that exists
\* (a generated key becomes known only through the service or a return value).
CallerKeys == UserKeys \cup {k \in AllKeys : \E c \in Containers : store[c][k] # NoBlob}

\* The objects of container c, as the service holds them.
KeysIn(c) == {k \in AllKeys : store[c][k] # NoBlob}

\* The metadata record (BlobProperties) the service yields for one object.
BlobProperties(c, k) == [container |-> c, name |-> k]

\* A new client handle, as the credentials object builds one per call.
NewClient(c, k) == [container |-> c, blob |-> k, closes |-> 0, closedBy |-> {}]

\* One release call on handle h, made by invocation p.
CloseClient(cl, h, p) ==
    IF h = NoHandle THEN cl
    ELSE [cl EXCEPT ![h].closes = @ + 1, ![h].closedBy = @ \cup {p}]

\* upload_blob(data, overwrite) of the service; "conflict" leaves the store as it is.
UploadConflict(c, k, ow) == store[c][k] # NoBlob /\ ~ow
UploadBlob(st, c, k, d) == [st EXCEPT ![c][k] = d]

\* The next object of container c after marker m, in the service's order.
NextKey(c, m) ==
    LET rest == {k \in KeysIn(c) : k > m}
    IN  IF rest = {} THEN None
        ELSE CHOOSE k \in rest : \A j \in rest : k <= j

\* ------------------------------------------------------ pieces of the tasks

\* Faulty variant: `thing` kept on the class, so every instance sees the last one stored.
AclosingInitShared(th, p, h) == [q \in Procs |-> h]

\* aclosing.__init__: self.thing = thing, on the instance of invocation p.
AclosingInit(th, p, h) == [th EXCEPT ![p] = h]

\* aclosing.__aenter__: return self.thing.
AclosingEnter(th, p) == th[p]

\* Faulty variant: __aexit__ that does not close.
AclosingExitNoop(cl, th, p) == cl

\* Faulty variant: __aexit__ that closes twice.
AclosingExitTwice(cl, th, p) == CloseClient(CloseClient(cl, th[p], p), th[p], p)

\* aclosing.__aexit__: await self.thing.close().
AclosingExit(cl, th, p) == CloseClient(cl, th[p], p)

\* Faulty variant: __aexit__ that returns True.
AclosingSuppressesAll == TRUE

\* aclosing.__aexit__ returns None: the exception in flight is not suppressed.
AclosingSuppresses == FALSE

\* BlobClient.__aexit__, run by `async with` on leaving the block.
BlobClientExit(cl, h, p) == CloseClient(cl, h, p)

\* The exception that leaves an `async with` block whose exit returned.
WithExit(e, suppress) == IF suppress THEN NoExc ELSE e

\* Faulty variant: the container argument ignored in favour of a fixed one.
DownloadClientArgsFixed(c, k) == <<"c1", k>>

\* blob_storage_download: get_blob_client(container, blob).
DownloadClientArgs(c, k) == <<c, k>>

\* blob_storage_download: output = await blob_obj.content_as_bytes(); return output.
DownloadReturn(obj, out) == out

\* Faulty variant: a fixed default name in place of uuid.uuid4().
ResolveKeyFixed(k, fresh) == IF k = None THEN 1 ELSE k

\* blob_storage_upload: if blob is None: blob = str(uuid.uuid4()).
ResolveKey(k, fresh) == IF k = None THEN fresh ELSE k

\* blob_storage_upload: get_blob_client(container, blob), with the resolved key.
UploadClientArgs(c, given, resolved) == <<c, resolved>>

\* Faulty variants: the overwrite flag not passed on.
OverwriteAlways(ow) == TRUE
OverwriteNever(ow) == FALSE

\* blob_storage_upload: upload_blob(data, overwrite=overwrite).
UploadOverwriteArg(ow) == ow

\* Faulty variant: the argument returned, not the resolved key.
UploadReturnGiven(given, resolved) == given

\* blob_storage_upload: return blob.
UploadReturn(given, resolved) == resolved

\* blob_storage_list: get_container_client(container).
ListClientArg(c) == c

\* Faulty variant: each item replaces the list.
CollectLast(acc, item) == <<item>>

\* blob_storage_list: [blob async for blob in ...] appends each item.
Collect(acc, item) == Append(acc, item)

\* ----------------------------------------------------------------- calls

Idle(p) == pc[p] \in {"idle", "done"}

\* A task starts: its locals are fresh.
Enter(p, args, at, limit) ==
    /\ Idle(p)
    /\ started < limit
    /\ started' = started + 1
    /\ call' = [call EXCEPT ![p] = args]
    /\ pc' = [pc EXCEPT ![p] = at]
    /\ clients' = [clients EXCEPT ![p] = NoClient]
    /\ blob' = [blob EXCEPT ![p] = args.blob]
    /\ client' = [client EXCEPT ![p] = NoHandle]
    /\ thing' = [thing EXCEPT ![p] = NoHandle]
    /\ blob_obj' = [blob_obj EXCEPT ![p] = NoBlob]
    /\ output' = [output EXCEPT ![p] = NoBlob]
    /\ blobs' = [blobs EXCEPT ![p] = <<>>]
    /\ cursor' = [cursor EXCEPT ![p] = NoCursor]
    /\ exc' = [exc EXCEPT ![p] = NoExc]
    /\ raised' = [raised EXCEPT ![p] = NoExc]
    /\ ret' = [ret EXCEPT ![p] = NoRet]
    /\ UNCHANGED <<store, uuids>>

\* Invocations that will call uuid.uuid4() and have not yet.
PendingUuids == {q \in Procs : pc[q] = "ul_key" /\ call[q].blob = None}

CallDownload(p, limit) ==
    \E c \in Containers, k \in CallerKeys :
        Enter(p, [op |-> "download", container |-> c, blob |-> k,
                  data |-> "d1", overwrite |-> FALSE], "dl_acquire", limit)

CallUpload(p, limit) ==
    \E d \in Data, c \in Containers, k \in CallerKeys \cup {None}, ow \in BOOLEAN :
        /\ k = None => uuids + Cardinality(PendingUuids) < MaxUuids
        /\ Enter(p, [op |-> "upload", container |-> c, blob |-> k,
                     data |-> d, overwrite |-> ow], "ul_key", limit)

CallList(p, limit) ==
    \E c \in Containers :
        Enter(p, [op |-> "list", container |-> c, blob |-> None,
                  data |-> "d1", overwrite |-> FALSE], "ls_acquire", limit)

\* The task ends: the caller sees e raised, or r returned.
Leave(p, e, r) ==
    /\ pc' = [pc EXCEPT ![p] = "done"]
    /\ raised' = [raised EXCEPT ![p] = e]
    /\ ret' = [ret EXCEPT ![p] = IF e = NoExc THEN r ELSE NoRet]

\* -------------------------------------------------- blob_storage_download

DlAcquire(p) ==
    /\ pc[p] = "dl_acquire"
    /\ LET a == DownloadClientArgs(call[p].container, call[p].blob)
       IN  clients' = [clients EXCEPT ![p] = NewClient(a[1], a[2])]
    /\ client' = [client EXCEPT ![p] = p]
    /\ pc' = [pc EXCEPT ![p] = "dl_fetch"]
    /\ UNCHANGED <<store, uuids, started, call, blob, thing, blob_obj, output,
                   blobs, cursor, exc, raised, ret>>

DlFetch(p) ==
    /\ pc[p] = "dl_fetch"
    /\ LET h == clients[client[p]]
           content == store[h.container][h.blob]
       IN  IF content = NoBlob
           THEN /\ exc' = [exc EXCEPT ![p] = Exc("ResourceNotFoundError", "download_blob")]
                /\ pc' = [pc EXCEPT ![p] = "dl_exit"]
                /\ UNCHANGED blob_obj
           ELSE /\ blob_obj' = [blob_obj EXCEPT ![p] = content]
                /\ pc' = [pc EXCEPT ![p] = "dl_read"]
                /\ UNCHANGED exc
    /\ UNCHANGED <<store, uuids, started, clients, call, blob, client, thing,
                   output, blobs, cursor, raised, ret>>

DlRead(p) ==
    /\ pc[p] = "dl_read"
    /\ output' = [output EXCEPT ![p] = blob_obj[p]]
    /\ pc' = [pc EXCEPT ![p] = "dl_exit"]
    /\ UNCHANGED <<store, uuids, started, clients, call, blob, client, thing,
                   blob_obj, blobs, cursor, exc, raised, ret>>

DlExit(p) ==
    /\ pc[p] = "dl_exit"
    /\ clients' = BlobClientExit(clients, client[p], p)
    /\ Leave(p, WithExit(exc[p], FALSE),
             [kind |-> "bytes", val |-> DownloadReturn(blob_obj[p], output[p])])
    /\ UNCHANGED <<store, uuids, started, call, blob, client, thing, blob_obj,
                   output, blobs, cursor, exc>>

\* ---------------------------------------------------- blob_storage_upload

UlKey(p) ==
    /\ pc[p] = "ul_key"
    /\ blob' = [blob EXCEPT ![p] = ResolveKey(call[p].blob, Uuid(uuids + 1))]
    /\ uuids' = IF call[p].blob = None THEN uuids + 1 ELSE uuids
    /\ pc' = [pc EXCEPT ![p] = "ul_acquire"]
    /\ UNCHANGED <<store, started, clients, call, client, thing, blob_obj,
                   output, blobs, cursor, exc, raised, ret>>

UlAcquire(p) ==
    /\ pc[p] = "ul_acquire"
    /\ LET a == UploadClientArgs(call[p].container, call[p].blob, blob[p])
       IN  clients' = [clients EXCEPT ![p] = NewClient(a[1], a[2])]
    /\ client' = [client EXCEPT ![p] = p]
    /\ pc' = [pc EXCEPT ![p] = "ul_write"]
    /\ UNCHANGED <<store, uuids, started, call, blob, thing, blob_obj, output,
                   blobs, cursor, exc, raised, ret>>

UlWrite(p) ==
    /\ pc[p] = "ul_write"
    /\ LET h == clients[client[p]]
       IN  IF UploadConflict(h.container, h.blob, UploadOverwriteArg(call[p].overwrite))
           THEN /\ exc' = [exc EXCEPT ![p] = Exc("ResourceExistsError", "upload_blob")]
                /\ UNCHANGED store
           ELSE /\ store' = UploadBlob(store, h.container, h.blob, call[p].data)
                /\ UNCHANGED exc
    /\ pc' = [pc EXCEPT ![p] = "ul_exit"]
    /\ UNCHANGED <<uuids, started, clients, call, blob, client, thing, blob_obj,
                   output, blobs, cursor, raised, ret>>

UlExit(p) ==
    /\ pc[p] = "ul_exit"
    /\ clients' = BlobClientExit(clients, client[p], p)
    /\ Leave(p, WithExit(exc[p], FALSE),
             [kind |-> "key", val |-> UploadReturn(call[p].blob, blob[p])])
    /\ UNCHANGED <<store, uuids, started, call, blob, client, thing, blob_obj,
                   output, blobs, cursor, exc>>

\* ------------------------------------------------------ blob_storage_list

LsAcquire(p) ==
    /\ pc[p] = "ls_acquire"
    /\ clients' = [clients EXCEPT ![p] = NewClient(ListClientArg(call[p].container), None)]
    /\ thing' = AclosingInit(thing, p, p)
    /\ client' = [client EXCEPT ![p] = AclosingEnter(thing', p)]
    /\ pc' = [pc EXCEPT ![p] = "ls_open"]
    /\ UNCHANGED <<store, uuids, started, call, blob, blob_obj, output, blobs,
                   cursor, exc, raised, ret>>

LsOpen(p) ==
    /\ pc[p] = "ls_open"
    /\ cursor' = [cursor EXCEPT ![p] = [state |-> "active", marker |-> 0]]
    /\ pc' = [pc EXCEPT ![p] = "ls_iter"]
    /\ UNCHANGED <<store, uuids, started, clients, call, blob, client, thing,
                   blob_obj, output, blobs, exc, raised, ret>>

LsNext(p) ==
    /\ pc[p] = "ls_iter"
    /\ LET c == clients[client[p]].container
           k == NextKey(c, cursor[p].marker)
       IN  IF k = None
           THEN /\ cursor' = [cursor EXCEPT ![p].state = "exhausted"]
                /\ pc' = [pc EXCEPT ![p] = "ls_exit"]
                /\ UNCHANGED blobs
           ELSE /\ cursor' = [cursor EXCEPT ![p].marker = k]
                /\ blobs' = [blobs EXCEPT ![p] = Collect(@, BlobProperties(c, k))]
                /\ UNCHANGED pc
    /\ UNCHANGED <<store, uuids, started, clients, call, blob, client, thing,
                   blob_obj, output, exc, raised, ret>>

LsExit(p) ==
    /\ pc[p] = "ls_exit"
    /\ clients' = AclosingExit(clients, thing, p)
    /\ Leave(p, WithExit(exc[p], AclosingSuppresses),
             [kind |-> "list", val |-> blobs[p]])
    /\ UNCHANGED <<store, uuids, started, call, blob, client, thing, blob_obj,
                   output, blobs, cursor, exc>>

\* ------------------------------------------------- failures of the service

\* get_blob_client / get_container_client raises: no handle, no block entered.
AcquireFault(p) ==
    /\ pc[p] \in {"dl_acquire", "ul_acquire", "ls_acquire"}
    /\ \E k \in FaultKinds :
        /\ exc' = [exc EXCEPT ![p] = Exc(k, "get_client")]
        /\ Leave(p, Exc(k, "get_client"), NoRet)
    /\ UNCHANGED <<store, uuids, started, clients, call, blob, client, thing,
                   blob_obj, output, blobs, cursor>>

BodyStep(at) ==
    CASE at = "dl_fetch" -> "download_blob"
      [] at = "dl_read" -> "content_as_bytes"
      [] at = "ul_write" -> "upload_blob"
      [] OTHER -> "list_blobs"

ExitOf(at) ==
    CASE at \in {"dl_fetch", "dl_read"} -> "dl_exit"
      [] at = "ul_write" -> "ul_exit"
      [] OTHER -> "ls_exit"

\* An await inside the block raises: control goes to the block's exit.
BodyFault(p) ==
    /\ pc[p] \in {"dl_fetch", "dl_read", "ul_write", "ls_iter"}
    /\ \E k \in FaultKinds :
        exc' = [exc EXCEPT ![p] = Exc(k, BodyStep(pc[p]))]
    /\ pc' = [pc EXCEPT ![p] = ExitOf(pc[p])]
    /\ cursor' = [cursor EXCEPT ![p].state =
                     IF pc[p] = "ls_iter" THEN "abandoned" ELSE @]
    /\ UNCHANGED <<store, uuids, started, clients, call, blob, client, thing,
                   blob_obj, output, blobs, raised, ret>>

\* The release call itself raises: its exception is the one that leaves the block.
ExitFault(p) ==
    /\ pc[p] \in {"dl_exit", "ul_exit", "ls_exit"}
    /\ clients' = IF pc[p] = "ls_exit"
                  THEN AclosingExit(clients, thing, p)
                  ELSE BlobClientExit(clients, client[p], p)
    /\ \E k \in FaultKinds : Leave(p, Exc(k, "close"), NoRet)
    /\ UNCHANGED <<store, uuids, started, call, blob, client, thing, blob_obj,
                   output, blobs, cursor, exc>>

\* ---------------------------------------------------------- specifications

Call(p, limit) == CallDownload(p, limit) \/ CallUpload(p, limit) \/ CallList(p, limit)

Step(p) ==
    \/ DlAcquire(p) \/ DlFetch(p) \/ DlRead(p) \/ DlExit(p)
    \/ UlKey(p) \/ UlAcquire(p) \/ UlWrite(p) \/ UlExit(p)
    \/ LsAcquire(p) \/ LsOpen(p) \/ LsNext(p) \/ LsExit(p)

Fault(p) == AcquireFault(p) \/ BodyFault(p) \/ ExitFault(p)

\* Any interleaving of invocations, against a service that may fail anywhere.
Next == \E p \in Procs : Call(p, MaxOps) \/ Step(p) \/ Fault(p)

Spec == Init /\ [][Next]_vars

\* Invocations one after another, against a service that fails only as the
\* store dictates (not found, conflict): the setting of a test double.
SeqNext ==
    \E p \in Procs :
        \/ (\A q \in Procs : Idle(q)) /\ Call(p, SeqMaxOps)
        \/ Step(p)

SeqSpec == Init /\ [][SeqNext]_vars

\* ------------------------------------------------------------------ claims

\* The step at which invocation p hands control back to its caller.
Returns(p) == pc[p] # "done" /\ pc'[p] = "done"
\* The step at which invocation p's upload_blob call completes.
Wrote(p) == pc[p] = "ul_write" /\ pc'[p] = "ul_exit"
\* The content the service holds at the (container, key) the caller named.
Held(p) == store[call[p].container][call[p].blob]
Acquired(p) == client[p] # NoHandle
InBlock(p) == pc[p] \in {"dl_fetch", "dl_read", "ul_write", "ls_open", "ls_iter"}
AtExit(p) == pc[p] \in {"dl_exit", "ul_exit", "ls_exit"}

\* C1: a download of a (container, key) at which the store holds content C
\* acquires a client for exactly that pair and returns exactly C, whatever
\* earlier calls produced the store; the store is left as it was.
C1_DownloadReturnsContent ==
    [][\A p \in Procs :
        (Returns(p) /\ call[p].op = "download" /\ Held(p) # NoBlob) =>
            /\ raised'[p] = NoExc
            /\ ret'[p] = [kind |-> "bytes", val |-> Held(p)]
            /\ clients'[p].container = call[p].container
            /\ clients'[p].blob = call[p].blob
            /\ store' = store]_vars

\* A download has returned d2 from a container whose sibling holds d1 at the
\* same key: the pair, not the key alone, selected the content.
C1_Witness ==
    \E p \in Procs, k \in AllKeys :
        /\ pc[p] = "done" /\ call[p].op = "download"
        /\ call[p].container = "c2" /\ call[p].blob = k
        /\ ret[p] = [kind |-> "bytes", val |-> "d2"]
        /\ store["c1"][k] = "d1" /\ store["c2"][k] = "d2"

\* C2: an upload given no key writes under a generated key that no object of
\* the container had before, returns that key, and leaves data stored at
\* (container, returned key), so the next download of it returns data; for
\* overwrite false and true alike.
C2_UploadFreshKey ==
    [][\A p \in Procs :
        /\ (Wrote(p) /\ call[p].blob = None) =>
              /\ blob[p] \notin KeysIn(call[p].container)
              /\ blob[p] \notin UserKeys
              /\ exc'[p] = NoExc
              /\ store'[call[p].container][blob[p]] = call[p].data
        /\ (Returns(p) /\ call[p].op = "upload" /\ call[p].blob = None) =>
              /\ raised'[p] = NoExc
              /\ ret'[p].kind = "key"
              /\ ret'[p].val \in AllKeys \ UserKeys
              /\ store'[call[p].container][ret'[p].val] = call[p].data]_vars

\* An upload with no key and overwrite=false has returned a generated key into
\* a container that already held another object.
C2_Witness ==
    \E p \in Procs :
        /\ pc[p] = "done" /\ call[p].op = "upload" /\ call[p].blob = None
        /\ ~call[p].overwrite /\ call[p].data = "d2"
        /\ ret[p] = [kind |-> "key", val |-> Uuid(1)]
        /\ store[call[p].container][Uuid(1)] = "d2"
        /\ store[call[p].container][1] = "d1"

\* C3: an upload to an existing (container, K) with overwrite=false ends in
\* the service's conflict error, returns no key, and changes no object.
C3_ConflictLeavesStore ==
    [][\A p \in Procs :
        /\ (Wrote(p) /\ call[p].blob # None /\ ~call[p].overwrite /\ Held(p) # NoBlob) =>
              /\ exc'[p] = Exc("ResourceExistsError", "upload_blob")
              /\ store' = store
        /\ (Returns(p) /\ exc[p].kind = "ResourceExistsError") =>
              /\ raised'[p] = Exc("ResourceExistsError", "upload_blob")
              /\ ret'[p] = NoRet
              /\ store' = store]_vars

\* An upload of d2 over an existing d1 with overwrite=false has raised the
\* conflict, and d1 is still there.
C3_Witness ==
    \E p \in Procs :
        /\ pc[p] = "done" /\ call[p].op = "upload" /\ ~call[p].overwrite
        /\ call[p].blob = 1 /\ call[p].data = "d2"
        /\ raised[p].kind = "ResourceExistsError" /\ ret[p] = NoRet
        /\ Held(p) = "d1"

\* C4: an upload to an existing (container, K) with overwrite=true succeeds,
\* returns K, and leaves the new data stored at (container, K), so the next
\* download of K returns the new data.
C4_OverwriteReplaces ==
    [][\A p \in Procs :
        /\ (Wrote(p) /\ call[p].blob # None /\ call[p].overwrite /\ Held(p) # NoBlob) =>
              /\ exc'[p] = NoExc
              /\ store'[call[p].container][call[p].blob] = call[p].data
        /\ (Returns(p) /\ call[p].op = "upload" /\ call[p].blob # None /\ call[p].overwrite) =>
              /\ raised'[p] = NoExc
              /\ ret'[p] = [kind |-> "key", val |-> call[p].blob]
              /\ store'[call[p].container][call[p].blob] = call[p].data]_vars

\* Invocation p wrote d1 at (c, K) with overwrite=false (so K did not exist
\* then), and invocation q has since replaced it by d2 with overwrite=true.
C4_Witness ==
    \E p \in Procs, q \in Procs :
        /\ p # q
        /\ pc[p] = "done" /\ call[p].op = "upload" /\ ~call[p].overwrite
        /\ call[p].blob = 1 /\ call[p].data = "d1" /\ raised[p] = NoExc
        /\ pc[q] = "done" /\ call[q].op = "upload" /\ call[q].overwrite
        /\ call[q].container = call[p].container /\ call[q].blob = call[p].blob
        /\ call[q].data = "d2" /\ raised[q] = NoExc
        /\ Held(q) = "d2"

\* C5: a list of a container returns one record per object of that container
\* and nothing else, without duplicates, in the service's order.
C5_ListExact ==
    [][\A p \in Procs :
        (Returns(p) /\ call[p].op = "list") =>
            LET c == call[p].container
                v == ret'[p].val
            IN  /\ raised'[p] = NoExc
                /\ ret'[p].kind = "list"
                /\ Len(v) = Cardinality(KeysIn(c))
                /\ {v[i] : i \in 1..Len(v)} = {BlobProperties(c, k) : k \in KeysIn(c)}
                /\ \A i \in 1..Len(v), j \in 1..Len(v) : i < j => v[i].name < v[j].name]_vars

\* A list has returned two records from a container of two objects while the
\* other container holds an object too.
C5_Witness ==
    \E p \in Procs :
        /\ pc[p] = "done" /\ call[p].op = "list" /\ call[p].container = "c1"
        /\ ret[p].kind = "list" /\ Len(ret[p].val) = 2
        /\ Cardinality(KeysIn("c1")) = 2 /\ KeysIn("c2") # {}

\* C6 as claimed: a failure raised inside a task reaches the caller as that
\* same error, whatever the release on exit does.
C6_Original ==
    \A p \in Procs :
        (pc[p] = "done" /\ exc[p] # NoExc) => raised[p] = exc[p]

\* C6, amended: a failure raised inside a task is never retried (control goes
\* to the block's exit and on to the caller) and never swallowed; the caller
\* observes that same error, unless the release on exit itself raises, and
\* then the caller observes the release's error.
C6_FailurePropagates ==
    \A p \in Procs :
        exc[p] # NoExc =>
            /\ AtExit(p) \/ pc[p] = "done"
            /\ pc[p] = "done" =>
                  /\ raised[p] # NoExc
                  /\ ret[p] = NoRet
                  /\ raised[p] = exc[p] \/ raised[p].step = "close"

\* A list has failed part-way through its enumeration and its caller observes
\* that failure of list_blobs.
C6_Witness ==
    \E p \in Procs :
        /\ pc[p] = "done" /\ call[p].op = "list" /\ Len(blobs[p]) = 1
        /\ exc[p].step = "list_blobs" /\ raised[p] = exc[p]

\* C7: the client handle a call acquired has no release call made on it while
\* the call is inside its block, exactly one once the call has returned or
\* raised, and never more than one.
C7_ReleasedOnce ==
    \A p \in Procs :
        Acquired(p) =>
            /\ clients[client[p]].closes <= 1
            /\ InBlock(p) \/ AtExit(p) => clients[client[p]].closes = 0
            /\ pc[p] = "done" => clients[client[p]].closes = 1

\* A download has raised not-found and a list has failed in its enumeration,
\* and each one's handle has been released once.
C7_Witness ==
    \E p \in Procs, q \in Procs :
        /\ pc[p] = "done" /\ call[p].op = "list" /\ raised[p].step = "list_blobs"
        /\ Acquired(p) /\ clients[client[p]].closes = 1
        /\ pc[q] = "done" /\ call[q].op = "download"
        /\ raised[q].kind = "ResourceNotFoundError"
        /\ Acquired(q) /\ clients[client[q]].closes = 1

\* The key an upload resolves to: the caller's, or the last one generated.
Resolved(p) == IF call[p].blob # None THEN call[p].blob ELSE Uuid(uuids)

\* C8: a successful upload returns the caller's key when one was given and
\* the generated key otherwise; the store changes only at an upload's one
\* upload_blob call, and then only at (container, that key), to the data.
C8_OneWriteAtReturnedKey ==
    [][/\ \A p \in Procs :
            (Returns(p) /\ call[p].op = "upload" /\ raised'[p] = NoExc) =>
                /\ ret'[p] = [kind |-> "key", val |-> Resolved(p)]
                /\ clients'[p].container = call[p].container
                /\ clients'[p].blob = Resolved(p)
                /\ store'[call[p].container][Resolved(p)] = call[p].data
       /\ store' # store =>
            \E p \in Procs :
                /\ Wrote(p)
                /\ store' = [store EXCEPT ![call[p].container][Resolved(p)] = call[p].data]]_vars

\* An upload has returned the caller's key after writing d2 at (c2, 1), and
\* the objects at (c1, 1) and at the generated key are as they were.
C8_Witness ==
    \E p \in Procs :
        /\ pc[p] = "done" /\ call[p].op = "upload" /\ call[p].container = "c2"
        /\ call[p].blob = 1 /\ call[p].data = "d2"
        /\ ret[p] = [kind |-> "key", val |-> 1]
        /\ store["c2"][1] = "d2" /\ store["c1"][1] = "d1"
        /\ store["c1"][Uuid(1)] = "d1" /\ store["c2"][Uuid(1)] = NoBlob

\* The pager list_blobs() returned has been opened by invocation p.
CursorOpened(p) == cursor[p].state # "none"

\* C9 as claimed: once a list has returned or raised, the pager it obtained
\* from list_blobs() has been released.
C9_Original ==
    \A p \in Procs :
        (pc[p] = "done" /\ call[p].op = "list" /\ CursorOpened(p)) =>
            cursor[p].state = "released"

\* C9, amended: what a list releases after collection is the container client:
\* no release call is made on it while the enumeration runs, exactly one (by
\* the list itself) once the list has returned or raised; the pager is left
\* exhausted when the enumeration completed and abandoned when it failed.
C9_ContainerClientReleased ==
    \A p \in Procs :
        (call[p].op = "list" /\ CursorOpened(p)) =>
            /\ pc[p] = "ls_iter" =>
                  /\ cursor[p].state = "active"
                  /\ clients[client[p]].closes = 0
            /\ pc[p] = "done" =>
                  /\ clients[client[p]].closes = 1
                  /\ clients[client[p]].closedBy = {p}
                  /\ clients[client[p]].blob = None
                  /\ cursor[p].state = IF exc[p] = NoExc THEN "exhausted" ELSE "abandoned"

\* A list has failed after collecting one record, and its container client
\* has been released.
C9_Witness ==
    \E p \in Procs :
        /\ pc[p] = "done" /\ call[p].op = "list" /\ Len(blobs[p]) = 1
        /\ cursor[p].state = "abandoned" /\ raised[p] # NoExc
        /\ clients[client[p]].closes = 1

\* C10: under any interleaving, the handle an invocation uses is its own, only
\* its owner makes release calls on it, none is made while the owner is inside
\* its block, each aclosing instance refers to its own invocation's client, and
\* once every invocation has finished every handle acquired has been released.
C10_HandlesIndependent ==
    /\ \A p \in Procs :
          /\ Acquired(p) => client[p] = p
          /\ thing[p] \in {NoHandle, p}
          /\ clients[p].closedBy \subseteq {p}
          /\ InBlock(p) => clients[p].closes = 0 /\ clients[p] # NoClient
    /\ (\A p \in Procs : Idle(p)) =>
          \A p \in Procs : clients[p] = NoClient \/ clients[p].closes = 1

\* Invocation 2's download found (c, 1) absent and is still inside its block,
\* its handle unreleased, while invocation 1 has since created (c, 1), released
\* its own handle and returned: 1 ran its exit during 2's block.
C10_Witness ==
    /\ pc[1] = "done" /\ call[1].op = "upload" /\ ~call[1].overwrite
    /\ call[1].blob = 1 /\ raised[1] = NoExc /\ clients[1].closes = 1
    /\ pc[2] = "dl_exit" /\ call[2].op = "download"
    /\ call[2].container = call[1].container /\ call[2].blob = 1
    /\ exc[2].kind = "ResourceNotFoundError" /\ clients[2].closes = 0

====
